---- MODULE Spec2Model ----
(***************************************************************************)
(* Model of src/app.py, the BPO keyword scraper: the URL normaliser        *)
(* (clean_domain), the per-domain job (scrape_website: streamed fetch,     *)
(* text extraction, keyword matching, verdict string, exception handlers), *)
(* the spreadsheet glue (load_domains, update_sheet) and the run loop of   *)
(* the "Start Scraping" handler.                                           *)
(*                                                                         *)
(* Python strings are TLA+ strings; Len, \o and SubSeq act on them as on   *)
(* sequences of characters, a character being a string of length 1.        *)
(***************************************************************************)
EXTENDS Integers, Sequences, FiniteSets, TLC

VARIABLES
    pc,             \* position of the handler / unit under check
    colA,           \* sheet column A, row 1 is the header
    colB,           \* sheet column B, same rows
    domains,        \* list returned by load_domains
    src_row,        \* history: the row of column A each entry of domains came from
    results,        \* the run loop's results list
    outcomes,       \* history: what the network/parser did for each job
    requests,       \* history: URLs for which s.get was issued
    writes,         \* history: number of calls of update_sheet
    domain,         \* argument of clean_domain / scrape_website (unit runs)
    url,            \* clean_domain(domain)
    url2,           \* clean_domain(url)
    markup,         \* parsed page handed to the classifier
    text,           \* extracted lower-cased text
    found_keywords, \* the found_keywords list
    verdict,        \* return value of scrape_website
    html            \* len(html) in the streaming loop

vars == <<pc, colA, colB, domains, src_row, results, outcomes, requests, writes,
          domain, url, url2, markup, text, found_keywords, verdict, html>>

runVars == <<colA, colB, domains, src_row, results, outcomes, writes>>
cleanVars == <<url, url2>>
classifyVars == <<markup, text, found_keywords>>

-----------------------------------------------------------------------------
(* Bounds of the model.                                                    *)

MaxPieces == 4      \* pieces concatenated into an input of clean_domain
MaxElems == 2       \* elements of a page handed to the classifier
MaxRows == 3        \* data rows of column A below the header
MaxScrapePieces == 2 \* pieces concatenated into an argument of scrape_website

-----------------------------------------------------------------------------
(* Python str primitives.                                                  *)

None == "None"      \* Python's None; no URL returned by clean_domain equals it

Whitespace == {" ", "\t", "\n"}

Char(s, i) == SubSeq(s, i, i)

RECURSIVE LStrip(_)
LStrip(s) ==
    IF Len(s) > 0 /\ Char(s, 1) \in Whitespace
    THEN LStrip(SubSeq(s, 2, Len(s)))
    ELSE s

RECURSIVE RStrip(_)
RStrip(s) ==
    IF Len(s) > 0 /\ Char(s, Len(s)) \in Whitespace
    THEN RStrip(SubSeq(s, 1, Len(s) - 1))
    ELSE s

\* str.strip()
Strip(s) == RStrip(LStrip(s))

\* str.startswith(p)
StartsWith(s, p) == Len(s) >= Len(p) /\ SubSeq(s, 1, Len(p)) = p

\* p in s
Contains(s, p) ==
    \E i \in 1..(Len(s) - Len(p) + 1) : SubSeq(s, i, i + Len(p) - 1) = p

\* str.replace(old, new): non-overlapping occurrences, leftmost first, one pass
RECURSIVE Replace(_, _, _)
Replace(s, old, new) ==
    IF Len(s) < Len(old) THEN s
    ELSE IF SubSeq(s, 1, Len(old)) = old
         THEN new \o Replace(SubSeq(s, Len(old) + 1, Len(s)), old, new)
         ELSE Char(s, 1) \o Replace(SubSeq(s, 2, Len(s)), old, new)

RECURSIVE Concat(_)
Concat(ps) == IF ps = <<>> THEN "" ELSE Head(ps) \o Concat(Tail(ps))

SeqsUpTo(S, n) == UNION {[1..k -> S] : k \in 0..n}

-----------------------------------------------------------------------------
(* clean_domain                                                            *)

HasScheme(s) == StartsWith(s, "http://") \/ StartsWith(s, "https://")

Collapse(s) ==
    Replace(Replace(s, "https://https://", "https://"),
            "http://https://", "https://")

\* clean_domain with the wrong scheme in line 75
clean_domain_http(d) ==
    LET s == Strip(d)
    IN  IF s = "" THEN None
        ELSE LET c == Collapse(s)
             IN  IF HasScheme(c) THEN c ELSE "http://" \o c

clean_domain(d) ==
    LET s == Strip(d)
    IN  IF s = "" THEN None
        ELSE LET c == Collapse(s)
             IN  IF HasScheme(c) THEN c ELSE "https://" \o c

\* Inputs of clean_domain: concatenations of scheme fragments, a host and blanks.
Pieces == {"https://", "http://", "http", "s://", "a.co", " "}

DomainInputs == {Concat(ps) : ps \in SeqsUpTo(Pieces, MaxPieces)}

InitClean ==
    /\ pc = "start"
    /\ domain \in DomainInputs
    /\ url = None /\ url2 = None
    /\ colA = <<>> /\ colB = <<>> /\ domains = <<>> /\ src_row = <<>>
    /\ results = <<>> /\ outcomes = <<>> /\ requests = <<>> /\ writes = 0
    /\ markup = <<>> /\ text = "" /\ found_keywords = <<>>
    /\ verdict = None /\ html = 0

Clean ==
    /\ pc = "start"
    /\ url' = clean_domain(domain)
    /\ pc' = "once"
    /\ UNCHANGED <<runVars, classifyVars, requests, domain, url2, verdict, html>>

CleanAgain ==
    /\ pc = "once"
    /\ url # None
    /\ url2' = clean_domain(url)
    /\ pc' = "twice"
    /\ UNCHANGED <<runVars, classifyVars, requests, domain, url, verdict, html>>

NextClean == Clean \/ CleanAgain

SpecClean == InitClean /\ [][NextClean]_vars

-----------------------------------------------------------------------------
(* C4 (src/app.py:64-75): normalisation is idempotent,                     *)
(* clean_domain(clean_domain(d)) = clean_domain(d) for every d that is     *)
(* non-empty after trimming, stacked scheme prefixes included.             *)
C4_Idempotent == pc = "twice" => url2 = url

DoubleScheme(s) ==
    Contains(s, "https://https://") \/ Contains(s, "http://https://")

SchemeRule(s) == IF HasScheme(s) THEN s ELSE "https://" \o s

(* C5 as stated (src/app.py:64-75): a trimmed non-empty input that starts  *)
(* with http:// or https:// is returned unchanged, every other non-empty   *)
(* input is returned with https:// in front.                               *)
C5_Unchanged ==
    (pc # "start" /\ Strip(domain) # "") => url = SchemeRule(Strip(domain))

(* C5 as amended: the rule of C5 holds for every trimmed non-empty input   *)
(* that contains neither "https://https://" nor "http://https://"; an      *)
(* input that contains one has these occurrences replaced by "https://"    *)
(* (one left-to-right pass each) before the rule is applied.               *)
C5_Amended ==
    LET t == Strip(domain)
    IN  (pc # "start" /\ t # "") =>
            /\ ~DoubleScheme(t) => url = SchemeRule(t)
            /\ DoubleScheme(t) =>
                   url = SchemeRule(Collapse(t))

C5_Witness == pc = "once" /\ domain = " a.co" /\ url = "https://a.co"

-----------------------------------------------------------------------------
(* Keyword classifier: lines 92-100 of scrape_website.                     *)

KEYWORDS == <<
    "bpo", "business process outsourcing",
    "customer", "CX",
    "support", "CSAT",
    "Chief Customer", "Head of Customer",
    "VP of Customer", "Director of Support",
    "Chief Customer Officer", "VP of Support & Service Operations",
    "Chief Customer Officer (CCO)", "Chief Experience Officer (CXO)",
    "Vice President (VP) of Customer Support", "VP of Customer Service",
    "VP of Customer Experience", "Head of Customer Support",
    "Head of Customer Service", "Head of Customer Experience",
    "Director of Customer Support", "Director of Customer Service",
    "Director of Customer Experience", "Director of Support Operations",
    "Director of Customer Care", "Head of Support Operations",
    "VP of Customer Care", "Director of Client Services",
    "Director of Support Strategy", "Director of Procurement",
    "Head of Procurement", "Vice President (VP) of Procurement",
    "Chief Procurement Officer (CPO)", "Senior Procurement Manager",
    "Director of Sourcing", "Head of Strategic Sourcing",
    "VP of Strategic Sourcing", "Director of Purchasing",
    "Head of Global Sourcing", "VP of Purchasing",
    "Director of Vendor Management", "Head of Vendor Management",
    "VP of Vendor Management", "Chief Vendor Management Officer",
    "Director of Supplier Management", "Head of Supplier Relationship Management",
    "VP of Supplier Management", "Senior Vendor Relationship Manager",
    "Director of Partner Management", "CFO (Chief Financial Officer)",
    "VP of Financial Planning & Analysis (FP&A)", "VP of Corporate Finance",
    "Head of Finance", "Head of FP&A",
    "Head of Corporate Finance", "Director of Finance",
    "Director of Financial Planning & Analysis", "Director of Corporate Finance",
    "Controller / Financial Controller"
>>

UpperChars == "ABCDEFGHIJKLMNOPQRSTUVWXYZ"
LowerChars == "abcdefghijklmnopqrstuvwxyz"

\* the lower-case letter of each upper-case letter
LowerTable ==
    [c \in {Char(UpperChars, i) : i \in 1..Len(UpperChars)} |->
        Char(LowerChars, CHOOSE i \in 1..Len(UpperChars) : Char(UpperChars, i) = c)]

LowerChar(c) == IF c \in DOMAIN LowerTable THEN LowerTable[c] ELSE c

\* str.lower()
RECURSIVE Lower(_)
Lower(s) ==
    IF s = "" THEN "" ELSE LowerChar(Char(s, 1)) \o Lower(SubSeq(s, 2, Len(s)))

\* The characters of the model in ascending code-point order.
CharOrder ==
    " &(),-./0123456789:<>ABCDEFGHIJKLMNOPQRSTUVWXYZ_abcdefghijklmnopqrstuvwxyz"

\* Rank of a character; order-isomorphic to Python's ord on CharOrder.
Rank ==
    [c \in {Char(CharOrder, i) : i \in 1..Len(CharOrder)} |->
        CHOOSE i \in 1..Len(CharOrder) : Char(CharOrder, i) = c]

Ord(c) == Rank[c]

\* a < b on Python strings: lexicographic by code point, a proper prefix first
RECURSIVE StrLess(_, _)
StrLess(a, b) ==
    IF a = "" THEN b # ""
    ELSE IF b = "" THEN FALSE
    ELSE IF Char(a, 1) = Char(b, 1)
         THEN StrLess(SubSeq(a, 2, Len(a)), SubSeq(b, 2, Len(b)))
         ELSE Ord(Char(a, 1)) < Ord(Char(b, 1))

ToSet(l) == {l[i] : i \in 1..Len(l)}

\* list(set(l)) without the sort: some order of the distinct elements
RECURSIVE Unsorted(_)
Unsorted(l) ==
    IF l = <<>> THEN <<>>
    ELSE LET rest == Unsorted(Tail(l))
         IN  IF Head(l) \in ToSet(rest) THEN rest ELSE <<Head(l)>> \o rest

RECURSIVE SortSet(_)
SortSet(S) ==
    IF S = {} THEN <<>>
    ELSE LET m == CHOOSE x \in S : \A y \in S : x = y \/ StrLess(x, y)
         IN  <<m>> \o SortSet(S \ {m})

\* sorted(list(set(l)))
sorted(l) == SortSet(ToSet(l))

\* sep.join(l)
RECURSIVE Join(_, _)
Join(l, sep) ==
    IF l = <<>> THEN ""
    ELSE IF Len(l) = 1 THEN l[1]
    ELSE l[1] \o sep \o Join(Tail(l), sep)

\* tags removed by tag.decompose()
Decomposed == {"script", "style", "noscript", "nav", "footer", "header"}

\* soup.get_text(separator=" ", strip=True).lower() after the decompose loop;
\* a page is the sequence of its elements, each a tag with its text node
get_text(page) ==
    LET kept == SelectSeq(page, LAMBDA e : e.tag \notin Decomposed)
        strings == [i \in 1..Len(kept) |-> Strip(kept[i].text)]
    IN  Lower(Join(SelectSeq(strings, LAMBDA s : s # ""), " "))

\* kw.lower() for the keywords of KEYWORDS
KeywordLower == [kw \in ToSet(KEYWORDS) |-> Lower(kw)]

\* kw.lower() in text
Matches(kw, t) == Contains(t, KeywordLower[kw])

\* sorted(list(set([kw for kw in KEYWORDS if kw.lower() in text])))
FoundKeywords(t) == sorted(SelectSeq(KEYWORDS, LAMBDA kw : Matches(kw, t)))

VerdictOf(found) ==
    IF found # <<>> THEN "YES: " \o Join(found, ", ") ELSE "NO"

SampleTags == {"p", "script"}

SampleTexts ==
    {"", "Flexible CXOffice", "Contact our CX team", " bpo Support",
     "VP of Customer Experience"}

Elements == [tag : SampleTags, text : SampleTexts]

Pages == SeqsUpTo(Elements, MaxElems)

InitClassify ==
    /\ pc = "start"
    /\ markup \in Pages
    /\ text = "" /\ found_keywords = <<>> /\ verdict = None
    /\ colA = <<>> /\ colB = <<>> /\ domains = <<>> /\ src_row = <<>>
    /\ results = <<>> /\ outcomes = <<>> /\ requests = <<>> /\ writes = 0
    /\ domain = "" /\ url = None /\ url2 = None /\ html = 0

Classify ==
    /\ pc = "start"
    /\ text' = get_text(markup)
    /\ found_keywords' = FoundKeywords(text')
    /\ verdict' = VerdictOf(found_keywords')
    /\ pc' = "done"
    /\ UNCHANGED <<runVars, cleanVars, requests, domain, markup, html>>

NextClassify == Classify

SpecClassify == InitClassify /\ [][NextClassify]_vars

-----------------------------------------------------------------------------
WordChars == "0123456789ABCDEFGHIJKLMNOPQRSTUVWXYZ_abcdefghijklmnopqrstuvwxyz"

IsWordChar(c) == \E i \in 1..Len(WordChars) : Char(WordChars, i) = c

\* w occurs in t with no word character right before it and none right after it
WholeWordIn(t, w) ==
    \E i \in 1..(Len(t) - Len(w) + 1) :
        /\ SubSeq(t, i, i + Len(w) - 1) = w
        /\ i = 1 \/ ~IsWordChar(Char(t, i - 1))
        /\ i + Len(w) - 1 = Len(t) \/ ~IsWordChar(Char(t, i + Len(w)))

(* C7 (src/app.py:95-96): keyword matching is whole-word; a keyword is     *)
(* reported only when it occurs in the lower-cased text delimited by word  *)
(* boundaries: "flexible cxoffice" does not match "cx", "contact our cx    *)
(* team" does.                                                             *)
C7_WholeWord ==
    pc = "done" =>
        /\ \A i \in 1..Len(found_keywords) :
               WholeWordIn(text, Lower(found_keywords[i]))
        /\ text = "flexible cxoffice" => "CX" \notin ToSet(found_keywords)
        /\ text = "contact our cx team" => "CX" \in ToSet(found_keywords)

\* s.split(sep)
RECURSIVE Split(_, _)
Split(s, sep) ==
    IF Contains(s, sep)
    THEN LET i == CHOOSE j \in 1..(Len(s) - Len(sep) + 1) :
                      /\ SubSeq(s, j, j + Len(sep) - 1) = sep
                      /\ \A k \in 1..(j - 1) : SubSeq(s, k, k + Len(sep) - 1) # sep
         IN  <<SubSeq(s, 1, i - 1)>> \o Split(SubSeq(s, i + Len(sep), Len(s)), sep)
    ELSE <<s>>

MatchedSet(t) ==
    {kw \in ToSet(KEYWORDS) : Contains(t, Lower(kw))}

(* C8 (src/app.py:96-100, 17-38): for a fetched page the verdict is        *)
(* "YES: ..." iff at least one keyword occurs in the extracted text and    *)
(* "NO" otherwise; a YES verdict lists every matched keyword exactly once, *)
(* in ascending lexicographic (code point) order.                          *)
C8_Verdict ==
    pc = "done" =>
        LET matched == MatchedSet(text)
        IN  /\ (matched = {}) <=> (verdict = "NO")
            /\ (matched # {}) <=> StartsWith(verdict, "YES: ")
            /\ matched # {} =>
                   LET listed == Split(SubSeq(verdict, 6, Len(verdict)), ", ")
                   IN  /\ ToSet(listed) = matched
                       /\ \A i, j \in 1..Len(listed) :
                              i < j => StrLess(listed[i], listed[j])

C8_Witness ==
    /\ pc = "done"
    /\ text = "contact our cx team bpo support"
    /\ verdict = "YES: CX, bpo, support"

-----------------------------------------------------------------------------
(* scrape_website.  An outcome is what the environment does to one job     *)
(* once s.get is issued: a response with a status and a page, a            *)
(* requests.exceptions.RequestException of some class raised by the        *)
(* transport, or any other Exception raised while fetching or parsing.     *)

SamplePages ==
    { <<>>,
      <<[tag |-> "p", text |-> "Contact our CX team"]>>,
      <<[tag |-> "p", text |-> " bpo Support"],
        [tag |-> "script", text |-> "VP of Customer Experience"]>> }

Outcomes ==
    [kind : {"response"}, status : {200, 404, 500}, page : SamplePages,
     name : {""}, msg : {""}]
    \cup [kind : {"RequestException"}, status : {0}, page : {<<>>},
          name : {"ConnectionError", "ReadTimeout"}, msg : {""}]
    \cup [kind : {"Exception"}, status : {0}, page : {<<>>},
          name : {""}, msg : {"Empty Domain", "unknown encoding"}]

\* r.raise_for_status() raises HTTPError, a RequestException
RaisesForStatus(status) == status >= 400 /\ status < 600

\* the exception, if any, that leaves the try block of lines 82-100
Raised(o) ==
    IF o.kind = "response"
    THEN IF RaisesForStatus(o.status)
         THEN [class |-> "RequestException", name |-> "HTTPError", msg |-> ""]
         ELSE [class |-> "none", name |-> "", msg |-> ""]
    ELSE [class |-> o.kind, name |-> o.name, msg |-> o.msg]

IsFailure(o) == Raised(o).class # "none"

\* the except clauses without line 103: another Exception leaves scrape_website
Handle_norequest(e) ==
    IF e.class = "RequestException"
    THEN [ret |-> "Error: Connection failed (" \o e.name \o ")", raised |-> FALSE]
    ELSE [ret |-> None, raised |-> TRUE]

\* the except clauses of lines 101-104
Handle(e) ==
    IF e.class = "RequestException"
    THEN [ret |-> "Error: Connection failed (" \o e.name \o ")", raised |-> FALSE]
    ELSE [ret |-> "Error: " \o e.msg, raised |-> FALSE]

\* lines 82-104, entered with a URL
FetchAndClassify(o) ==
    IF IsFailure(o)
    THEN Handle(Raised(o))
    ELSE [ret |-> VerdictOf(FoundKeywords(get_text(o.page))), raised |-> FALSE]

\* scrape_website without the check of line 80
scrape_website_nocheck(d, o) ==
    LET u == clean_domain(d)
    IN  FetchAndClassify(o) @@ [url |-> u, gets |-> <<u>>]

\* scrape_website: url, the value returned, whether an exception left the
\* function, and the URLs for which s.get was issued
scrape_website(d, o) ==
    LET u == clean_domain(d)
    IN  IF u = None
        THEN [url |-> u, ret |-> "Empty Domain", raised |-> FALSE, gets |-> <<>>]
        ELSE FetchAndClassify(o) @@ [url |-> u, gets |-> <<u>>]

ScrapePieces == Pieces \cup {"\t"}

ScrapeInputs == {Concat(ps) : ps \in SeqsUpTo(ScrapePieces, MaxScrapePieces)}

InitScrape ==
    /\ pc = "start"
    /\ domain \in ScrapeInputs
    /\ url = None /\ url2 = None
    /\ colA = <<>> /\ colB = <<>> /\ domains = <<>> /\ src_row = <<>>
    /\ results = <<>> /\ outcomes = <<>> /\ requests = <<>> /\ writes = 0
    /\ markup = <<>> /\ text = "" /\ found_keywords = <<>>
    /\ verdict = None /\ html = 0

Scrape ==
    /\ pc = "start"
    /\ \E o \in Outcomes :
           \E r \in {scrape_website(domain, o)} :
               /\ url' = r.url
               /\ verdict' = r.ret
               /\ requests' = requests \o r.gets
               /\ outcomes' = <<o>>
               /\ pc' = IF r.raised THEN "raised" ELSE "done"
    /\ UNCHANGED <<colA, colB, domains, src_row, results, writes,
                   classifyVars, domain, url2, html>>

NextScrape == Scrape

SpecScrape == InitScrape /\ [][NextScrape]_vars

(* C6 (src/app.py:77-84): for an empty or whitespace-only domain           *)
(* clean_domain returns None and scrape_website returns "Empty Domain"     *)
(* without issuing an HTTP request; for every other domain the verdict is  *)
(* never "Empty Domain".                                                   *)
C6_EmptyDomain ==
    pc # "start" =>
        IF \A i \in 1..Len(domain) : Char(domain, i) \in Whitespace
        THEN url = None /\ verdict = "Empty Domain" /\ requests = <<>> /\ pc = "done"
        ELSE verdict # "Empty Domain"

C6_Witness ==
    /\ pc = "done" /\ domain = " \t" /\ verdict = "Empty Domain"
    /\ requests = <<>> /\ outcomes[1].kind = "response"

-----------------------------------------------------------------------------
(* The streaming loop of lines 86-90; html is len(html).                   *)

MAX_BYTES == 300000

CHUNK_SIZE == 8192

\* sizes of the chunks yielded by r.iter_content(chunk_size=8192): full
\* chunks, half chunks, and the short chunk that lands exactly on MAX_BYTES
ChunkSizes == {CHUNK_SIZE, CHUNK_SIZE \div 2, MAX_BYTES % CHUNK_SIZE}

\* the loop without the break of lines 89-90
CapExceeded_never(n) == FALSE

\* line 89
CapExceeded(n) == n > MAX_BYTES

InitFetch ==
    /\ pc = "reading"
    /\ html = 0
    /\ colA = <<>> /\ colB = <<>> /\ domains = <<>> /\ src_row = <<>>
    /\ results = <<>> /\ outcomes = <<>> /\ requests = <<>> /\ writes = 0
    /\ domain = "" /\ url = None /\ url2 = None
    /\ markup = <<>> /\ text = "" /\ found_keywords = <<>> /\ verdict = None

\* one iteration of the for loop of line 87
ReadChunk ==
    /\ pc = "reading"
    /\ \E chunk \in ChunkSizes :
           /\ html' = html + chunk
           /\ pc' = IF CapExceeded(html') THEN "parse" ELSE "reading"
    /\ UNCHANGED <<runVars, cleanVars, classifyVars, requests, domain, verdict>>

\* iter_content is exhausted: the body was shorter than the cap
EndOfBody ==
    /\ pc = "reading"
    /\ pc' = "parse"
    /\ UNCHANGED <<runVars, cleanVars, classifyVars, requests, domain, verdict, html>>

NextFetch == ReadChunk \/ EndOfBody

SpecFetch == InitFetch /\ [][NextFetch]_vars

(* C10 as stated (src/app.py:39, 86-92): the markup passed to the          *)
(* classifier is never longer than MAX_BYTES.                              *)
C10_AtMostCap == pc = "parse" => html <= MAX_BYTES

(* C10 as amended: the markup passed to the classifier is never longer     *)
(* than MAX_BYTES plus one chunk (308,192 bytes); a chunk is read only     *)
(* while at most MAX_BYTES bytes are held, and reading stops once the      *)
(* length exceeds MAX_BYTES.                                               *)
C10_Amended ==
    /\ html <= MAX_BYTES + CHUNK_SIZE
    /\ pc = "reading" => html <= MAX_BYTES
    /\ html > MAX_BYTES => pc = "parse"

C10_Witness == pc = "parse" /\ html = MAX_BYTES + CHUNK_SIZE

-----------------------------------------------------------------------------
(* The "Start Scraping" handler: load_domains, the run loop, update_sheet. *)

Cells == {"", " ", "a.co", "https://b.org"}

Sheets == {<<>>} \cup {<<"Domain">> \o s : s \in SeqsUpTo(Cells, MaxRows)}

SheetRows == 1..(MaxRows + 1)

\* what the jobs of a run meet
RunOutcomes ==
    {o \in Outcomes :
        /\ o.kind = "response" => o.status \in {200, 404}
        /\ o.kind = "response" /\ o.status = 404 => o.page = <<>>
        /\ o.kind = "RequestException" => o.name = "ConnectionError"
        /\ o.kind = "Exception" => o.msg = "unknown encoding"}

\* sheet.col_values(1)[1:]
ColValues(col) == IF col = <<>> THEN <<>> ELSE Tail(col)

\* load_domains: lines 121-122
load_domains(col) == SelectSeq(ColValues(col), LAMBDA d : Strip(d) # "")

\* the rows of column A the entries of load_domains(col) were read from
RowsRead(col) ==
    SelectSeq([k \in 1..Len(ColValues(col)) |-> k + 1],
              LAMBDA r : Strip(col[r]) # "")

\* update_sheet: column B after the call; ok is FALSE when sheet.range or
\* sheet.update_cells raises, which line 115 catches
update_sheet(col, rs, ok) ==
    IF rs = <<>> \/ ~ok THEN col
    ELSE [r \in DOMAIN col |->
             IF r \in 2..(Len(rs) + 1) THEN rs[r - 1] ELSE col[r]]

\* line 153 as results.insert(0, result)
Collect_front(rs, r) == <<r>> \o rs

\* line 153
Collect(rs, r) == Append(rs, r)

\* update_sheet called from inside the loop body
LoopDone_always(rs, ds) == TRUE

\* the for loop of line 149 is exhausted and line 157 is reached
LoopDone(rs, ds) == Len(rs) = Len(ds)

Init ==
    /\ pc = "idle"
    /\ colA \in Sheets
    /\ colB = [r \in SheetRows |-> ""]
    /\ domains = <<>> /\ src_row = <<>>
    /\ results = <<>> /\ outcomes = <<>> /\ requests = <<>> /\ writes = 0
    /\ domain = "" /\ url = None /\ url2 = None
    /\ markup = <<>> /\ text = "" /\ found_keywords = <<>>
    /\ verdict = None /\ html = 0

\* lines 135-147: the button is pressed; authentication, opening the sheet
\* or reading column A may fail
StartScraping ==
    /\ pc = "idle"
    /\ \E conn \in {"ok", "auth_failed", "open_failed", "load_failed"} :
           IF conn \in {"auth_failed", "open_failed"}
           THEN /\ pc' = "failed"
                /\ UNCHANGED <<domains, src_row>>
           ELSE /\ domains' = IF conn = "ok" THEN load_domains(colA) ELSE <<>>
                /\ src_row' = IF conn = "ok" THEN RowsRead(colA) ELSE <<>>
                /\ pc' = IF domains' = <<>> THEN "no_domains" ELSE "loop"
    /\ UNCHANGED <<colA, colB, results, outcomes, requests, writes,
                   cleanVars, classifyVars, domain, verdict, html>>

\* lines 149-155: one iteration of the run loop; after the last one the
\* loop is left and lines 157-160 run
LoopStep ==
    /\ pc = "loop"
    /\ \E o \in RunOutcomes, ok \in BOOLEAN :
           \E r \in {scrape_website(domains[Len(results) + 1], o)} :
           \E rs \in {Collect(results, r.ret)} :
               /\ outcomes' = Append(outcomes, o)
               /\ requests' = requests \o r.gets
               /\ IF r.raised
                  THEN /\ pc' = "aborted"
                       /\ UNCHANGED <<results, colB, writes>>
                  ELSE /\ results' = rs
                       /\ IF LoopDone(rs, domains)
                          THEN /\ colB' = update_sheet(colB, rs, ok)
                               /\ writes' = writes + 1
                               /\ pc' = IF ok THEN "done" ELSE "unsaved"
                          ELSE /\ ok
                               /\ pc' = "loop"
                               /\ UNCHANGED <<colB, writes>>
    /\ UNCHANGED <<colA, domains, src_row, cleanVars, classifyVars,
                   domain, verdict, html>>

Next == StartScraping \/ LoopStep

Spec == Init /\ [][Next]_vars

Finished == pc \in {"done", "unsaved"}

(* C1 (src/app.py:146-155): when the run loop finishes, results has the    *)
(* length of domains and results[i] is the verdict produced for            *)
(* domains[i]; each domain gets exactly one verdict.                       *)
C1_Aligned ==
    Finished =>
        /\ Len(results) = Len(domains)
        /\ \A k \in 1..Len(domains) :
               results[k] = scrape_website(domains[k], outcomes[k]).ret

C1_Witness ==
    /\ pc = "done" /\ Len(domains) = 3 /\ Len(results) = 3
    /\ results[1] = "NO" /\ results[2] # "NO" /\ results[3] # results[2]

(* C2 (src/app.py:82-104, 149-153): a failure inside one job becomes an    *)
(* "Error: ..." verdict of that domain only; no exception leaves           *)
(* scrape_website, the loop goes on to every later domain, and a domain    *)
(* whose own job succeeded gets the verdict of its own page whatever       *)
(* happened to the other jobs.                                             *)
C2_Isolated ==
    /\ pc # "aborted"
    /\ Len(results) = Len(outcomes)
    /\ \A k \in 1..Len(results) :
           IF IsFailure(outcomes[k])
           THEN StartsWith(results[k], "Error: ")
           ELSE results[k] = VerdictOf(FoundKeywords(get_text(outcomes[k].page)))
    /\ Finished => Len(results) = Len(domains)

C2_Witness ==
    /\ pc = "done" /\ Len(results) = 3
    /\ outcomes[1].kind = "Exception" /\ results[1] = "Error: unknown encoding"
    /\ outcomes[2].kind = "RequestException"
    /\ results[3] = "YES: CX"

(* C3 (src/app.py:106-125): the verdict of the domain read from row r of   *)
(* column A is written to row r of column B, blank cells between domains   *)
(* included.                                                               *)
C3_SameRow ==
    pc = "done" =>
        \A k \in 1..Len(domains) : colB[src_row[k]] = results[k]

(* C9 (src/app.py:146-157, 106-116): update_sheet is called at most once   *)
(* in a run and only when every domain has its verdict; an entry of        *)
(* results is written once, by its own job, and never changed afterwards.  *)
C9_SinkAfterJobs ==
    /\ [](writes <= 1 /\ (writes > 0 => Len(results) = Len(domains)))
    /\ [][/\ Len(results') \in {Len(results), Len(results) + 1}
          /\ \A k \in 1..Len(results) : results'[k] = results[k]]_vars

C9_Witness ==
    /\ pc = "done" /\ writes = 1 /\ Len(results) = 2
    /\ colB[2] = results[1] /\ colB[3] = results[2] /\ results[1] # results[2]

====
